---- MODULE Spec2Model ----
(***************************************************************************)
(* Interval tree clocks (interval_tree_clocks.py): the ID tree, the Event  *)
(* tree and the operations over them, as TLA+ operators computed the way   *)
(* the Python code computes them, and the state machines that apply them.  *)
(*                                                                         *)
(* Python values are encoded as records:                                   *)
(*   None                      [none |-> TRUE]                             *)
(*   IDInteger(v)              [value |-> v]                               *)
(*   IDTuple(l, r)             [left |-> l, right |-> r]                   *)
(*   Event(b, tl, tr)          [base |-> b, top_left |-> tl,               *)
(*                              top_right |-> tr]                          *)
(*   True / False              [bool |-> TRUE] / [bool |-> FALSE]          *)
(*   a 2-tuple (x, y)          [first |-> x, second |-> y]                 *)
(*   a raised exception        [error |-> "<exception class>"]             *)
(* An operation whose argument evaluation raised yields that exception.    *)
(***************************************************************************)
EXTENDS Integers, Sequences, FiniteSets, TLC

VARIABLES pc, a, arg, out, held, stamps, last

vars == <<pc, a, arg, out, held, stamps, last>>

(* ------------------------------------------------------------------ *)
(* Bounds of the model                                                 *)
(* ------------------------------------------------------------------ *)

\* largest number of leaves of an ID forked and joined back in SpecID
MaxIdLeaves == 4

\* largest number of leaves of an ID passed to fill and grow
MaxLeaves == 3

\* largest weight (number of nodes plus sum of the bases) of the Event an
\* operation is called on
MaxWeight == 7

\* largest weight of the Event passed as the other operand
MaxArgWeight == 4

\* largest distance, up or down, passed to offset_base as an input
MaxDistance == 2

\* largest number of participants holding a share at the same time
MaxParticipants == 4

\* an ID of this depth is not forked further
MaxIdDepth == 3

\* largest number of participants holding a stamp at the same time
MaxStamps == 3

\* a stamp whose ID has this depth is not forked further
MaxStampIdDepth == 2

\* a stamp whose event has this height records no further event
MaxHeight == 2

(* ------------------------------------------------------------------ *)
(* Python values                                                       *)
(* ------------------------------------------------------------------ *)

None == [none |-> TRUE]

Raise(name) == [error |-> name]

IsErr(x) == "error" \in DOMAIN x

PyBool(b) == [bool |-> b]

PyTuple(x, y) ==
    IF IsErr(x) THEN x
    ELSE IF IsErr(y) THEN y
    ELSE [first |-> x, second |-> y]

IsIDInteger(x) == "value" \in DOMAIN x

IsIDTuple(x) == "left" \in DOMAIN x

IsEvent(x) == "base" \in DOMAIN x

(* ------------------------------------------------------------------ *)
(* ID tree                                                             *)
(* ------------------------------------------------------------------ *)

RECURSIVE ID_bool(_)
RECURSIVE ID_fork(_)
RECURSIVE ID_join(_, _)
RECURSIVE ID_normalize(_)

\* IDInteger.__post_init__: only 0 and 1 are allowed
IDInteger(value) ==
    IF value \notin {0, 1} THEN Raise("ValueError")
    ELSE [value |-> value]

IDInteger_bool(self) == self.value # 0

IDTuple_bool(self) == ID_bool(self.left) \/ ID_bool(self.right)

\* bool(x) of an ID value, by its class
ID_bool(x) == IF IsIDInteger(x) THEN IDInteger_bool(x) ELSE IDTuple_bool(x)

\* IDTuple.__post_init__: the empty interval is not an IDTuple
IDTuple(left, right) ==
    IF IsErr(left) THEN left
    ELSE IF IsErr(right) THEN right
    ELSE IF ~(ID_bool(left) \/ ID_bool(right)) THEN Raise("TypeError")
    ELSE [left |-> left, right |-> right]

IDInteger_fork(self) ==
    IF self.value # 0
    THEN PyTuple(IDTuple(self, IDInteger(0)), IDTuple(IDInteger(0), self))
    ELSE Raise("ZeroDivisionError")

\* a fork whose second half keeps the left share as well
IDTuple_fork_keepleft(self) ==
    IF ID_bool(self.left) /\ ID_bool(self.right)
    THEN PyTuple(IDTuple(self.left, IDInteger(0)), IDTuple(self.left, self.right))
    ELSE IF ID_bool(self.left)
    THEN LET f == ID_fork(self.left)
         IN  IF IsErr(f) THEN f
             ELSE PyTuple(IDTuple(f.first, IDInteger(0)), IDTuple(f.second, IDInteger(0)))
    ELSE IF ID_bool(self.right)
    THEN LET f == ID_fork(self.right)
         IN  IF IsErr(f) THEN f
             ELSE PyTuple(IDTuple(IDInteger(0), f.first), IDTuple(IDInteger(0), f.second))
    ELSE Raise("ZeroDivisionError")

IDTuple_fork(self) ==
    IF ID_bool(self.left) /\ ID_bool(self.right)
    THEN PyTuple(IDTuple(self.left, IDInteger(0)), IDTuple(IDInteger(0), self.right))
    ELSE IF ID_bool(self.left)
    THEN LET f == ID_fork(self.left)
         IN  IF IsErr(f) THEN f
             ELSE PyTuple(IDTuple(f.first, IDInteger(0)), IDTuple(f.second, IDInteger(0)))
    ELSE IF ID_bool(self.right)
    THEN LET f == ID_fork(self.right)
         IN  IF IsErr(f) THEN f
             ELSE PyTuple(IDTuple(IDInteger(0), f.first), IDTuple(IDInteger(0), f.second))
    ELSE Raise("ZeroDivisionError")

\* x.fork() of an ID value, by its class
ID_fork(x) ==
    IF IsErr(x) THEN x
    ELSE IF IsIDInteger(x) THEN IDInteger_fork(x) ELSE IDTuple_fork(x)

IDInteger_join(self, other) ==
    IF ~(IsIDInteger(other) \/ IsIDTuple(other)) THEN Raise("TypeError")
    ELSE IF self.value # 0 THEN self
    ELSE other

IDInteger_normalize(self) == self

\* a normalize that keeps Node(1, 1) and Node(0, 0) unmerged
IDTuple_normalize_nomerge(self) ==
    LET left  == ID_normalize(self.left)
        right == ID_normalize(self.right)
    IN  IDTuple(left, right)

IDTuple_normalize(self) ==
    LET left  == ID_normalize(self.left)
        right == ID_normalize(self.right)
    IN  IF IsIDInteger(left) /\ IsIDInteger(right) /\ left.value = right.value
        THEN left
        ELSE IDTuple(left, right)

\* x.normalize() of an ID value, by its class
ID_normalize(x) ==
    IF IsErr(x) THEN x
    ELSE IF IsIDInteger(x) THEN IDInteger_normalize(x) ELSE IDTuple_normalize(x)

IDTuple_join(self, other) ==
    IF IsIDInteger(other)
    THEN IF other.value # 0 THEN other ELSE self
    ELSE IF IsIDTuple(other)
    THEN ID_normalize(IDTuple(ID_join(self.left, other.left),
                              ID_join(self.right, other.right)))
    ELSE Raise("TypeError")

\* x.join(other) of an ID value, by the class of x
ID_join(x, other) ==
    IF IsErr(x) THEN x
    ELSE IF IsErr(other) THEN other
    ELSE IF IsIDInteger(x) THEN IDInteger_join(x, other) ELSE IDTuple_join(x, other)

(* ------------------------------------------------------------------ *)
(* Event tree                                                          *)
(* ------------------------------------------------------------------ *)

RECURSIVE Event_height(_)
RECURSIVE Event_complexity(_)
RECURSIVE Event_normalize(_)
RECURSIVE Event_eq(_, _)
RECURSIVE Event_le(_, _)
RECURSIVE Event_fill(_, _)
RECURSIVE Event_grow(_, _, _)
RECURSIVE Event_join(_, _)
RECURSIVE Event_offset_base(_, _)

Max(m, n) == IF m >= n THEN m ELSE n

Min(m, n) == IF m <= n THEN m ELSE n

Event_bool(self) ==
    ~(self.base = 0 /\ self.top_left = None /\ self.top_right = None)

\* truth value of an Optional[Event] (None is falsy, an Event by __bool__)
Truthy(x) == x # None /\ Event_bool(x)

\* the dataclass constructor with Event.__post_init__
Event(base, top_left, top_right) ==
    IF IsErr(top_left) THEN top_left
    ELSE IF IsErr(top_right) THEN top_right
    ELSE IF base < 0 THEN Raise("ValueError")
    ELSE IF top_left # None /\ ~Event_bool(top_left) THEN Raise("ValueError")
    ELSE IF top_right # None /\ ~Event_bool(top_right) THEN Raise("ValueError")
    ELSE [base |-> base, top_left |-> top_left, top_right |-> top_right]

\* the expression `x or None`
OrNone(x) == IF IsErr(x) THEN x ELSE IF Truthy(x) THEN x ELSE None

\* the expression `x or Event()`
OrEvent(x) == IF IsErr(x) THEN x ELSE IF Truthy(x) THEN x ELSE Event(0, None, None)

Event_height(self) ==
    IF Truthy(self.top_left) /\ Truthy(self.top_right)
    THEN self.base + Max(Event_height(self.top_left), Event_height(self.top_right))
    ELSE IF Truthy(self.top_left) THEN self.base + Event_height(self.top_left)
    ELSE IF Truthy(self.top_right) THEN self.base + Event_height(self.top_right)
    ELSE self.base

\* _overhead in Event.complexity
Overhead == 4

Event_complexity(self) ==
    IF Truthy(self.top_left) /\ Truthy(self.top_right)
    THEN Overhead + 1 + Event_complexity(self.top_left) + Event_complexity(self.top_right)
    ELSE IF Truthy(self.top_left) THEN Overhead + 2 + Event_complexity(self.top_left)
    ELSE IF Truthy(self.top_right) THEN Overhead + 2 + Event_complexity(self.top_right)
    ELSE 1

\* self.replace(base=base): the tops are kept
Event_replace(self, base) ==
    Event(base, OrNone(self.top_left), OrNone(self.top_right))

\* a normalize that leaves the common part of the two tops where it is
Event_normalize_nolift(self) ==
    IF IsErr(self) THEN self
    ELSE IF self.top_left = None /\ self.top_right = None THEN self
    ELSE IF self.top_left # None /\ self.top_right = None
    THEN Event(self.base, Event_normalize(self.top_left), None)
    ELSE IF self.top_left = None
    THEN Event(self.base, None, Event_normalize(self.top_right))
    ELSE Event(self.base, Event_normalize(self.top_left), Event_normalize(self.top_right))

Event_normalize(self) ==
    IF IsErr(self) THEN self
    ELSE IF self.top_left = None /\ self.top_right = None THEN self
    ELSE IF self.top_left # None /\ self.top_right = None
    THEN Event(self.base, Event_normalize(self.top_left), None)
    ELSE IF self.top_left = None
    THEN Event(self.base, None, Event_normalize(self.top_right))
    ELSE LET top_left    == Event_normalize(self.top_left)
             top_right   == Event_normalize(self.top_right)
             denominator == Min(top_left.base, top_right.base)
             base        == self.base + denominator
         IN  Event(base,
                   OrNone(Event_replace(top_left, top_left.base - denominator)),
                   OrNone(Event_replace(top_right, top_right.base - denominator)))

\* the expression `x != y` on two Optional[Event]: Event defines __eq__ only,
\* so != is the negation of Event.__eq__, called on whichever side is an Event
Optional_ne(x, y) ==
    IF x = None /\ y = None THEN PyBool(FALSE)
    ELSE IF x = None THEN Event_eq(y, x)
    ELSE LET r == Event_eq(x, y)
         IN  IF IsErr(r) THEN r ELSE PyBool(~r.bool)

Event_eq(self, other) ==
    IF IsErr(self) THEN self
    ELSE IF IsErr(other) THEN other
    ELSE IF ~IsEvent(other) THEN Raise("TypeError")
    ELSE LET self_n  == Event_normalize(self)
             other_n == Event_normalize(other)
         IN  IF self_n.base # other_n.base THEN PyBool(FALSE)
             ELSE LET ne_left == Optional_ne(self_n.top_left, other_n.top_left)
                  IN  IF IsErr(ne_left) THEN ne_left
                      ELSE IF ne_left.bool THEN PyBool(FALSE)
                      ELSE LET ne_right == Optional_ne(self_n.top_right, other_n.top_right)
                           IN  IF IsErr(ne_right) THEN ne_right
                               ELSE IF ne_right.bool THEN PyBool(FALSE)
                               ELSE PyBool(TRUE)

Event_le(self, other) ==
    IF IsErr(self) THEN self
    ELSE IF IsErr(other) THEN other
    ELSE IF ~IsEvent(other) THEN Raise("TypeError")
    ELSE LET self_n  == Event_normalize(self)
             other_n == Event_normalize(other)
             le_left ==
                 IF Truthy(self_n.top_left)
                 THEN Event_le(Event_offset_base(self_n.top_left, self_n.base - other_n.base),
                               OrEvent(other_n.top_left))
                 ELSE PyBool(TRUE)
             le_right ==
                 IF Truthy(self_n.top_right)
                 THEN Event_le(Event_offset_base(self_n.top_right, self_n.base - other_n.base),
                               OrEvent(other_n.top_right))
                 ELSE PyBool(TRUE)
         IN  IF self_n.base > other_n.base THEN PyBool(FALSE)
             ELSE IF IsErr(le_left) THEN le_left
             ELSE IF ~le_left.bool THEN PyBool(FALSE)
             ELSE IF IsErr(le_right) THEN le_right
             ELSE IF ~le_right.bool THEN PyBool(FALSE)
             ELSE PyBool(TRUE)

\* the expressions IDTuple.left and IDTuple.right in Event.fill: attributes of
\* the class, not of the interval; a dataclass field without a default is no
\* class attribute, so evaluating them raises
IDTuple_left == Raise("AttributeError")

IDTuple_right == Raise("AttributeError")

Event_fill(self, interval) ==
    IF IsErr(self) THEN self
    ELSE IF IsErr(interval) THEN interval
    ELSE IF IsIDInteger(interval)
    THEN IF interval.value = 1 THEN Event(Event_height(self), None, None) ELSE self
    ELSE IF IsIDTuple(interval)
    THEN LET top_left ==
                 IF Truthy(self.top_left)
                 THEN Event_fill(self.top_left, IDTuple_left)
                 ELSE self.top_left
             top_right ==
                 IF Truthy(self.top_right)
                 THEN Event_fill(self.top_right, IDTuple_right)
                 ELSE self.top_right
         IN  IF IsErr(top_left) THEN top_left
             ELSE Event_normalize(Event(self.base, top_left, top_right))
    ELSE Raise("TypeError")

\* the sort key x[:2] of a candidate: (complexity, height)
GrowKey(e) == <<Event_complexity(e), Event_height(e)>>

\* tuple comparison k1 < k2
KeyLess(k1, k2) == k1[1] < k2[1] \/ (k1[1] = k2[1] /\ k1[2] < k2[2])

\* a min that returns the last of the candidates with the least key
PyMin_last(candidates) ==
    LET i == CHOOSE i \in 1..Len(candidates) :
                 /\ \A j \in 1..Len(candidates) :
                        ~KeyLess(GrowKey(candidates[j]), GrowKey(candidates[i]))
                 /\ \A j \in (i + 1)..Len(candidates) :
                        KeyLess(GrowKey(candidates[i]), GrowKey(candidates[j]))
    IN  candidates[i]

\* min(candidates, key=lambda x: x[:2]): the first of the candidates with
\* the least key
PyMin(candidates) ==
    LET i == CHOOSE i \in 1..Len(candidates) :
                 /\ \A j \in 1..Len(candidates) :
                        ~KeyLess(GrowKey(candidates[j]), GrowKey(candidates[i]))
                 /\ \A j \in 1..(i - 1) :
                        KeyLess(GrowKey(candidates[i]), GrowKey(candidates[j]))
    IN  candidates[i]

\* the three candidates of Event.grow when both halves of the interval are
\* non-empty: <<grow_left, grow_right, grow_both>>
GrowCandidates(self, interval, amount) ==
    LET top_left   == Event_grow(OrEvent(self.top_left), interval.left, amount)
        top_right  == Event_grow(OrEvent(self.top_right), interval.right, amount)
        grow_left  == Event_normalize(Event(self.base, top_left, self.top_right))
        grow_right == Event_normalize(Event(self.base, self.top_left, top_right))
        grow_both  == Event_normalize(Event(self.base, top_left, top_right))
    IN  <<grow_left, grow_right, grow_both>>

Event_grow(self, interval, amount) ==
    IF IsErr(self) THEN self
    ELSE IF IsErr(interval) THEN interval
    ELSE IF amount <= 0 THEN Raise("ValueError")
    ELSE IF IsIDInteger(interval)
    THEN IF interval.value = 1
         THEN Event(Event_height(self) + amount, None, None)
         ELSE self
    ELSE IF IsIDTuple(interval)
    THEN IF ID_bool(interval.left) /\ ID_bool(interval.right)
         THEN LET c == GrowCandidates(self, interval, amount)
              IN  IF IsErr(c[1]) THEN c[1]
                  ELSE IF IsErr(c[2]) THEN c[2]
                  ELSE IF IsErr(c[3]) THEN c[3]
                  ELSE PyMin(c)
         ELSE IF ID_bool(interval.left)
         THEN LET top_left == Event_grow(OrEvent(self.top_left), interval.left, amount)
              IN  Event_normalize(Event(self.base, top_left, self.top_right))
         ELSE IF ID_bool(interval.right)
         THEN LET top_right == Event_grow(OrEvent(self.top_right), interval.right, amount)
              IN  Event_normalize(Event(self.base, self.top_left, top_right))
         ELSE Raise("RuntimeError")
    ELSE Raise("TypeError")

Event_join(self, other) ==
    IF IsErr(self) THEN self
    ELSE IF IsErr(other) THEN other
    ELSE IF ~IsEvent(other) THEN Raise("TypeError")
    ELSE IF ~Event_bool(self) THEN other
    ELSE IF ~Event_bool(other) THEN self
    ELSE IF self.base < other.base THEN Event_join(other, self)
    ELSE LET top_left ==
                 IF Truthy(self.top_left) /\ Truthy(other.top_left)
                 THEN Event_join(self.top_left,
                                 Event_offset_base(other.top_left, other.base - self.base))
                 ELSE IF Truthy(self.top_left) THEN self.top_left
                 ELSE IF Truthy(other.top_left)
                 THEN Event_offset_base(other.top_left, other.base - self.base)
                 ELSE None
             top_right ==
                 IF Truthy(self.top_right) /\ Truthy(other.top_right)
                 THEN Event_join(self.top_right,
                                 Event_offset_base(other.top_right, other.base - self.base))
                 ELSE IF Truthy(other.top_right)
                 THEN Event_offset_base(other.top_right, other.base - self.base)
                 ELSE IF Truthy(self.top_right) THEN self.top_right
                 ELSE None
         IN  Event(self.base, OrNone(top_left), OrNone(top_right))

Event_offset_base(self, distance) ==
    IF IsErr(self) THEN self
    ELSE LET base == self.base + distance
         IN  IF base < 0
             THEN LET top_left ==
                          IF Truthy(self.top_left)
                          THEN OrNone(Event_offset_base(self.top_left,
                                                        self.top_left.base + base))
                          ELSE self.top_left
                      top_right ==
                          IF Truthy(self.top_right)
                          THEN OrNone(Event_offset_base(self.top_right,
                                                        self.top_right.base + base))
                          ELSE self.top_right
                  IN  Event(0, top_left, top_right)
             ELSE Event(base, self.top_left, self.top_right)

(* ------------------------------------------------------------------ *)
(* Input domains: the ID values the constructors accept                *)
(* ------------------------------------------------------------------ *)

\* the ID values with exactly n leaves that IDInteger / IDTuple construct
RECURSIVE IDsOfSize(_)
IDsOfSize(n) ==
    IF n = 1 THEN {IDInteger(0), IDInteger(1)}
    ELSE UNION {
            {t \in {IDTuple(l, r) : l \in IDsOfSize(k), r \in IDsOfSize(n - k)} :
                ~IsErr(t)} : k \in 1..(n - 1)}

IDs == UNION {IDsOfSize(n) : n \in 1..MaxLeaves}

NonEmptyIDs == {x \in UNION {IDsOfSize(n) : n \in 1..MaxIdLeaves} : ID_bool(x)}

\* ID position semantics: the set of leaf paths (0 = left, 1 = right) of
\* length depth that x owns
RECURSIVE IDOwns(_, _)
IDOwns(x, depth) ==
    IF IsIDInteger(x)
    THEN IF x.value = 0 THEN {} ELSE [1..depth -> {0, 1}]
    ELSE IF depth = 0 THEN {<<>>}
    ELSE {<<0>> \o p : p \in IDOwns(x.left, depth - 1)}
         \cup {<<1>> \o p : p \in IDOwns(x.right, depth - 1)}

RECURSIVE IDDepth(_)
IDDepth(x) ==
    IF IsIDInteger(x) THEN 0
    ELSE 1 + (IF IDDepth(x.left) >= IDDepth(x.right)
              THEN IDDepth(x.left) ELSE IDDepth(x.right))

\* I2: no Node(0,0) and no Node(1,1) anywhere
RECURSIVE IDCanonical(_)
IDCanonical(x) ==
    IF IsIDInteger(x) THEN TRUE
    ELSE /\ IDCanonical(x.left)
         /\ IDCanonical(x.right)
         /\ ~(IsIDInteger(x.left) /\ IsIDInteger(x.right)
              /\ x.left.value = x.right.value)

\* the Events of weight exactly w (nodes plus sum of bases) that the
\* constructor accepts
RECURSIVE EventsOfWeight(_)
EventsOfWeight(w) ==
    LET Tops(k) == IF k < 0 THEN {} ELSE IF k = 0 THEN {None} ELSE EventsOfWeight(k)
    IN  UNION {
            {e \in {Event(b, l, r) : l \in Tops(lw), r \in Tops(w - 1 - b - lw)} :
                ~IsErr(e)} : b \in 0..(w - 1), lw \in 0..(w - 1)}

Events == UNION {EventsOfWeight(w) : w \in 1..MaxWeight}

ArgEvents == UNION {EventsOfWeight(w) : w \in 1..MaxArgWeight}

Distances == {[distance |-> d] : d \in (0 - MaxDistance)..MaxDistance}

\* number of levels below the root
RECURSIVE EventDepth(_)
EventDepth(e) ==
    IF e = None THEN 0
    ELSE IF e.top_left = None /\ e.top_right = None THEN 0
    ELSE 1 + Max(EventDepth(e.top_left), EventDepth(e.top_right))

\* the positions of [0,1) at resolution depth: paths of 0 (left) and 1 (right)
Paths(depth) == [1..depth -> {0, 1}]

\* the function an Event represents, at the position p (p at least as long
\* as the Event is deep)
RECURSIVE EventAt(_, _)
EventAt(e, p) ==
    IF e = None THEN 0
    ELSE IF Len(p) = 0 THEN e.base
    ELSE e.base + EventAt(IF Head(p) = 0 THEN e.top_left ELSE e.top_right, Tail(p))

\* E1, E2: bases are non-negative and a present top is not the empty event
RECURSIVE WellFormed(_)
WellFormed(e) ==
    /\ IsEvent(e)
    /\ e.base >= 0
    /\ e.top_left # None => (WellFormed(e.top_left) /\ Event_bool(e.top_left))
    /\ e.top_right # None => (WellFormed(e.top_right) /\ Event_bool(e.top_right))

\* E3 at every node: where both tops are present the smaller top base is 0
RECURSIVE Canonical(_)
Canonical(e) ==
    /\ WellFormed(e)
    /\ e.top_left # None => Canonical(e.top_left)
    /\ e.top_right # None => Canonical(e.top_right)
    /\ (e.top_left # None /\ e.top_right # None)
           => Min(e.top_left.base, e.top_right.base) = 0

(* ------------------------------------------------------------------ *)
(* Spec: one Event operation applied to drawn inputs                   *)
(* ------------------------------------------------------------------ *)

Init ==
    /\ pc = "start"
    /\ a \in Events
    /\ arg \in ArgEvents \cup IDs \cup Distances
    /\ out = None
    /\ held = <<>>
    /\ stamps = <<>>
    /\ last = None

Call(op, result) ==
    /\ pc = "start"
    /\ pc' = op
    /\ out' = result
    /\ UNCHANGED <<a, arg, held, stamps, last>>

\* a.join(arg)
CallJoin == IsEvent(arg) /\ Call("join", Event_join(a, arg))

\* a <= arg
CallLe == IsEvent(arg) /\ Call("le", Event_le(a, arg))

\* a == arg
CallEq == IsEvent(arg) /\ Call("eq", Event_eq(a, arg))

\* a.fill(arg)
CallFill == (IsIDInteger(arg) \/ IsIDTuple(arg)) /\ Call("fill", Event_fill(a, arg))

\* a.grow(arg)
CallGrow == (IsIDInteger(arg) \/ IsIDTuple(arg)) /\ Call("grow", Event_grow(a, arg, 1))

\* a.offset_base(arg)
CallOffsetBase ==
    "distance" \in DOMAIN arg /\ Call("offset_base", Event_offset_base(a, arg.distance))

Next == CallJoin \/ CallLe \/ CallEq \/ CallFill \/ CallGrow \/ CallOffsetBase

Spec == Init /\ [][Next]_vars

\* the function of e is less than or equal to the function of f everywhere
PointwiseLe(e, f) ==
    LET d == Max(EventDepth(e), EventDepth(f))
    IN  \A p \in Paths(d) : EventAt(e, p) <= EventAt(f, p)

\* C1: a.join(arg) returns an event whose function over [0,1) is the
\* pointwise maximum of the functions of a and arg.
C1_JoinIsPointwiseMax ==
    pc = "join" =>
        /\ ~IsErr(out)
        /\ LET d == Max(EventDepth(a), Max(EventDepth(arg), EventDepth(out)))
           IN  \A p \in Paths(d) : EventAt(out, p) = Max(EventAt(a, p), EventAt(arg, p))

\* C2: a <= arg returns True exactly when the function of a is pointwise less
\* than or equal to the function of arg.
C2_LeIsPointwise == pc = "le" => out = PyBool(PointwiseLe(a, arg))

\* C3: a == arg, a <= arg and a.join(arg) never raise on well-formed events;
\* the comparisons return a boolean.
C3_NeverFail ==
    pc \in {"eq", "le", "join"} =>
        /\ ~IsErr(out)
        /\ pc \in {"eq", "le"} => "bool" \in DOMAIN out

\* C6: if a <= arg is True then a.join(arg) == arg is True.
C6_JoinAbsorbs ==
    pc = "join" =>
        (Event_le(a, arg) = PyBool(TRUE) => Event_eq(out, arg) = PyBool(TRUE))

\* C7 (as stated): for canonical inputs the results of join, grow, fill and
\* offset_base are in canonical form (E3 at every node) as returned, with no
\* further normalize call.  The claim is about the form of the values
\* returned: a fill that raises (C9) returns none.
C7_ResultsCanonical ==
    /\ (pc \in {"grow", "offset_base"} /\ Canonical(a))
           => (~IsErr(out) /\ Canonical(out))
    /\ (pc = "fill" /\ Canonical(a)) => (IsErr(out) \/ Canonical(out))
    /\ (pc = "join" /\ Canonical(a) /\ Canonical(arg))
           => (~IsErr(out) /\ Canonical(out))

\* C7 (amended): for canonical inputs the results of grow, fill and
\* offset_base are in canonical form as returned; join returns a well-formed
\* event that is in canonical form only after a further normalize call.
C7_GrowCanonicalJoinAfterNormalize ==
    /\ (pc = "grow" /\ Canonical(a)) => (~IsErr(out) /\ Canonical(out))
    /\ (pc = "fill" /\ Canonical(a)) => (IsErr(out) \/ Canonical(out))
    /\ (pc = "join" /\ Canonical(a) /\ Canonical(arg))
           => (~IsErr(out) /\ WellFormed(out) /\ Canonical(Event_normalize(out)))
    /\ (pc = "offset_base" /\ Canonical(a)) => (~IsErr(out) /\ Canonical(out))

\* the join of (1, (1), absent) and (1, absent, (1)) is the structure
\* (1, (1), (1)), which normalize turns into (2, absent, absent)
C7_Witness ==
    /\ pc = "join"
    /\ a = Event(1, Event(1, None, None), None)
    /\ arg = Event(1, None, Event(1, None, None))
    /\ out = Event(1, Event(1, None, None), Event(1, None, None))
    /\ ~Canonical(out)
    /\ Event_normalize(out) = Event(2, None, None)

\* grow was called with an ID Node(L, R) whose two sides are non-empty
GrowBothSides ==
    /\ pc = "grow"
    /\ IsIDTuple(arg)
    /\ ID_bool(arg.left)
    /\ ID_bool(arg.right)

\* the candidate keys of grow_left, grow_right and grow_both are all equal
ThreeWayTie(c) == GrowKey(c[1]) = GrowKey(c[2]) /\ GrowKey(c[2]) = GrowKey(c[3])

\* C8 (as stated): with both sides of the ID non-empty, grow returns one of
\* the three candidates with a lexicographically minimal (complexity, height),
\* and the grow-both candidate when all three have the same key.
C8_GrowMinimalTieBoth ==
    GrowBothSides =>
        LET c == GrowCandidates(a, arg, 1)
        IN  /\ out \in {c[1], c[2], c[3]}
            /\ \A j \in 1..3 : ~KeyLess(GrowKey(c[j]), GrowKey(out))
            /\ ThreeWayTie(c) => out = c[3]

\* C8 (amended): grow returns a candidate with a lexicographically minimal
\* (complexity, height); among candidates with the same minimal key it returns
\* the first in the order grow-left, grow-right, grow-both, so the grow-left
\* candidate when all three have the same key.
C8_GrowMinimalTieFirst ==
    GrowBothSides =>
        LET c == GrowCandidates(a, arg, 1)
        IN  /\ out \in {c[1], c[2], c[3]}
            /\ \A j \in 1..3 : ~KeyLess(GrowKey(c[j]), GrowKey(out))
            /\ \E i \in 1..3 :
                  /\ out = c[i]
                  /\ \A j \in 1..(i - 1) : KeyLess(GrowKey(c[i]), GrowKey(c[j]))
            /\ ThreeWayTie(c) => out = c[1]

\* a three-way tie between three different candidates, grow-left returned
C8_Witness ==
    /\ GrowBothSides
    /\ LET c == GrowCandidates(a, arg, 1)
       IN  /\ ThreeWayTie(c)
           /\ c[1] # c[3]
           /\ c[1] # c[2]
           /\ out = c[1]

\* fill as section 4.2 states it: Leaf(1) gives the leaf event of the height,
\* Leaf(0) leaves the event unchanged, Node(L, R) fills each present top with
\* its half of the ID and normalizes
RECURSIVE FillStated(_, _)
FillStated(e, id) ==
    IF e = None THEN None
    ELSE IF IsIDInteger(id)
    THEN IF id.value = 1 THEN Event(Event_height(e), None, None) ELSE e
    ELSE Event_normalize(Event(e.base, FillStated(e.top_left, id.left),
                               FillStated(e.top_right, id.right)))

\* C9: a.fill(Node(L, R)) completes and returns
\* normalize((a.base, fill(a.topL, L), fill(a.topR, R))).
C9_FillNode ==
    (pc = "fill" /\ IsIDTuple(arg)) =>
        /\ ~IsErr(out)
        /\ out = Event_normalize(Event(a.base, FillStated(a.top_left, arg.left),
                                       FillStated(a.top_right, arg.right)))

(* ------------------------------------------------------------------ *)
(* SpecID: fork an ID, then join the two halves                        *)
(* ------------------------------------------------------------------ *)

InitID ==
    /\ pc = "start"
    /\ a \in NonEmptyIDs
    /\ arg = None
    /\ out = None
    /\ held = <<>>
    /\ stamps = <<>>
    /\ last = None

\* (x1, x2) = x.fork()
ForkID ==
    /\ pc = "start"
    /\ pc' = "forked"
    /\ out' = ID_fork(a)
    /\ UNCHANGED <<a, arg, held, stamps, last>>

\* x1.join(x2)
JoinHalves ==
    /\ pc = "forked"
    /\ ~IsErr(out)
    /\ pc' = "joined"
    /\ out' = ID_join(out.first, out.second)
    /\ UNCHANGED <<a, arg, held, stamps, last>>

NextID == ForkID \/ JoinHalves

SpecID == InitID /\ [][NextID]_vars

\* C5 (as stated): for every constructible non-empty ID x, with
\* (x1, x2) = x.fork(), x1.join(x2) is structurally equal to x.
C5_RoundTripStructural == pc = "joined" => out = a

\* C5 (amended): x1.join(x2) is structurally equal to x.normalize(), and so
\* to x itself whenever x is in canonical form.
C5_RoundTripNormalized ==
    pc = "joined" =>
        /\ out = ID_normalize(a)
        /\ (IDCanonical(a) => out = a)

\* a non-canonical IDTuple whose halves have been joined back to its normal form
C5_Witness ==
    /\ pc = "joined"
    /\ IsIDTuple(a)
    /\ ~IDCanonical(a)
    /\ out = ID_normalize(a)
    /\ out # a

(* ------------------------------------------------------------------ *)
(* SpecHeld: participants forking and joining their shares             *)
(* ------------------------------------------------------------------ *)

\* the sequence s without its j-th element
RemoveAt(s, j) == [k \in 1..(Len(s) - 1) |-> IF k < j THEN s[k] ELSE s[k + 1]]

\* the join of all the IDs of a non-empty sequence, left to right
RECURSIVE JoinAll(_)
JoinAll(s) ==
    IF Len(s) = 1 THEN s[1]
    ELSE ID_join(JoinAll(SubSeq(s, 1, Len(s) - 1)), s[Len(s)])

RECURSIVE MaxDepthOf(_)
MaxDepthOf(s) ==
    IF Len(s) = 0 THEN 0 ELSE Max(IDDepth(Head(s)), MaxDepthOf(Tail(s)))

InitHeld ==
    /\ pc = "held"
    /\ a = None
    /\ arg = None
    /\ out = None
    /\ held = <<IDInteger(1)>>
    /\ stamps = <<>>
    /\ last = [op |-> "seed"]

\* participant i forks its ID; the second half goes to a new participant
HeldFork(i) ==
    /\ pc = "held"
    /\ Len(held) < MaxParticipants
    /\ IDDepth(held[i]) < MaxIdDepth
    /\ LET f == ID_fork(held[i])
       IN  IF IsErr(f)
           THEN /\ last' = f
                /\ held' = held
           ELSE /\ last' = [op |-> "fork"]
                /\ held' = Append([held EXCEPT ![i] = f.first], f.second)
    /\ UNCHANGED <<pc, a, arg, out, stamps>>

\* participant j retires by joining its ID into participant i
HeldJoin(i, j) ==
    /\ pc = "held"
    /\ i # j
    /\ LET r == ID_join(held[i], held[j])
       IN  IF IsErr(r)
           THEN /\ last' = r
                /\ held' = held
           ELSE /\ last' = [op |-> "join"]
                /\ held' = RemoveAt([held EXCEPT ![i] = r], j)
    /\ UNCHANGED <<pc, a, arg, out, stamps>>

NextHeld ==
    \/ \E i \in 1..Len(held) : HeldFork(i)
    \/ \E i \in 1..Len(held) : \E j \in 1..Len(held) : HeldJoin(i, j)

SpecHeld == InitHeld /\ [][NextHeld]_vars

\* C10: after any sequence of forks and joins from the seed ID, every held
\* ID is non-empty and canonical, the held IDs are pairwise disjoint, they
\* own the whole interval together (their join is IDInteger(1)), and no
\* fork or join raised.
C10_Partition ==
    pc = "held" =>
        LET d == MaxDepthOf(held)
        IN  /\ ~IsErr(last)
            /\ \A i \in 1..Len(held) : ~IsErr(held[i]) /\ ID_bool(held[i]) /\ IDCanonical(held[i])
            /\ \A i \in 1..Len(held) : \A j \in 1..Len(held) :
                   i # j => IDOwns(held[i], d) \cap IDOwns(held[j], d) = {}
            /\ UNION {IDOwns(held[i], d) : i \in 1..Len(held)} = [1..d -> {0, 1}]
            /\ JoinAll(held) = IDInteger(1)

\* three participants, one of them holding a share put together by a join
\* that has both halves non-empty
C10_Witness ==
    /\ pc = "held"
    /\ last = [op |-> "join"]
    /\ Len(held) >= 3
    /\ \E i \in 1..Len(held) :
          IsIDTuple(held[i]) /\ ID_bool(held[i].left) /\ ID_bool(held[i].right)

(* ------------------------------------------------------------------ *)
(* SpecStamp: participants holding stamps (id, event); the Stamp       *)
(* operations are those of section 4.3                                 *)
(* ------------------------------------------------------------------ *)

Stamp(id, event) ==
    IF IsErr(id) THEN id
    ELSE IF IsErr(event) THEN event
    ELSE [id |-> id, event |-> event]

\* seed() -> (Leaf(1), emptyEvent)
Stamp_seed == Stamp(IDInteger(1), Event(0, None, None))

\* fork(s) -> ((id1, s.event), (id2, s.event))
Stamp_fork(s) ==
    LET f == ID_fork(s.id)
    IN  IF IsErr(f) THEN f
        ELSE PyTuple(Stamp(f.first, s.event), Stamp(f.second, s.event))

\* event(s): fill alone if it changes the event, otherwise grow
Stamp_event(s) ==
    IF ~ID_bool(s.id) THEN Raise("AnonymousEventError")
    ELSE LET filled == Event_fill(s.event, s.id)
             ne     == Optional_ne(filled, s.event)
         IN  IF IsErr(filled) THEN filled
             ELSE IF IsErr(ne) THEN ne
             ELSE IF ne.bool THEN Stamp(s.id, filled)
             ELSE Stamp(s.id, Event_grow(s.event, s.id, 1))

\* join(s, t) -> (idJoin(s.id, t.id), eventJoin(s.event, t.event))
Stamp_join(s, t) == Stamp(ID_join(s.id, t.id), Event_join(s.event, t.event))

InitStamp ==
    /\ pc = "stamps"
    /\ a = None
    /\ arg = None
    /\ out = None
    /\ held = <<>>
    /\ stamps = <<Stamp_seed>>
    /\ last = [op |-> "seed"]

\* participant i forks its stamp; the second half goes to a new participant
StampFork(i) ==
    /\ pc = "stamps"
    /\ Len(stamps) < MaxStamps
    /\ IDDepth(stamps[i].id) < MaxStampIdDepth
    /\ LET f == Stamp_fork(stamps[i])
       IN  /\ last' = [op |-> "fork", before |-> stamps[i], result |-> f]
           /\ stamps' = IF IsErr(f) THEN stamps
                        ELSE Append([stamps EXCEPT ![i] = f.first], f.second)
    /\ UNCHANGED <<pc, a, arg, out, held>>

\* participant i records an event; a failed operation leaves its stamp as it was
StampEvent(i) ==
    /\ pc = "stamps"
    /\ Event_height(stamps[i].event) < MaxHeight
    /\ LET r == Stamp_event(stamps[i])
       IN  /\ last' = [op |-> "event", before |-> stamps[i], result |-> r]
           /\ stamps' = IF IsErr(r) THEN stamps ELSE [stamps EXCEPT ![i] = r]
    /\ UNCHANGED <<pc, a, arg, out, held>>

\* participant j retires by joining its stamp into participant i
StampJoin(i, j) ==
    /\ pc = "stamps"
    /\ i # j
    /\ LET r == Stamp_join(stamps[i], stamps[j])
       IN  /\ last' = [op |-> "join", before |-> stamps[i], result |-> r]
           /\ stamps' = IF IsErr(r) THEN stamps
                        ELSE RemoveAt([stamps EXCEPT ![i] = r], j)
    /\ UNCHANGED <<pc, a, arg, out, held>>

NextStamp ==
    \/ \E i \in 1..Len(stamps) : StampFork(i)
    \/ \E i \in 1..Len(stamps) : StampEvent(i)
    \/ \E i \in 1..Len(stamps) : \E j \in 1..Len(stamps) : StampJoin(i, j)

SpecStamp == InitStamp /\ [][NextStamp]_vars

\* C4: for every stamp s with a non-empty ID reachable from the seed by fork,
\* event and join, the event operation completes and yields an event e' with
\* s.event <= e' true and e' not equal to s.event.
C4_EventMonotone ==
    (pc = "stamps" /\ last.op = "event") =>
        /\ ~IsErr(last.result)
        /\ Event_le(last.before.event, last.result.event) = PyBool(TRUE)
        /\ Event_normalize(last.result.event) # Event_normalize(last.before.event)

====
